---- MODULE Spec2Model ----
(***************************************************************************)
(* Model of src/src/tracker-component.js: the Tracker factory, its         *)
(* per-event functions, the generic track dispatcher, the beacon built by  *)
(* track() and the jetlore forwarding.                                     *)
(*                                                                         *)
(* JavaScript values are represented as follows.                           *)
(*   - a string is a TLA+ string; null is the string Null;                 *)
(*   - an object is a function from its keys to their values; a key whose  *)
(*     value is undefined is represented as an absent key;                 *)
(*   - the value undefined, where a whole argument or result is undefined, *)
(*     is the record Undefined;                                            *)
(*   - objects are held by reference: heap[a] is the object at address a.  *)
(*                                                                         *)
(* The program keeps the configuration objects, each tracker's closure     *)
(* variable and the cookies. What a call hands to the outside world (the   *)
(* image elements it creates, its calls to the jetlore client, its         *)
(* invocations of generateId) is not kept by the program: it is the imgs,  *)
(* jl and gen of the call's result, which the properties below read for    *)
(* every call that can be made in a state.                                 *)
(***************************************************************************)
EXTENDS Integers, Sequences, FiniteSets, TLC

VARIABLES
    heap,           \* the configuration objects, by address
    config,         \* config[t]: address bound to the closure variable `config` of tracker t
    given,          \* given[t]: address of the object the caller passed to Tracker(), 0 if none
    cookies,        \* the cookie jar: cookie name -> stored value
    lastPropertyId  \* lastPropertyId[t]: id of the latest setProperty made through tracker t

vars == <<heap, config, given, cookies, lastPropertyId>>

(***************************** bounds **************************************)
MaxTrackers == 2   \* trackers created
MaxObjs == 3       \* configuration objects in existence

(************************* JavaScript values *******************************)
Undefined == [undefined |-> TRUE]
Null == "null"
EmptyObj == <<>>

Has(o, k) == k \in DOMAIN o

\* an object operand of a spread or of a member access: {...undefined} is {}
Obj(o) == IF o = Undefined THEN EmptyObj ELSE o

\* { ...a, ...b }
Spread(a, b) ==
    [k \in DOMAIN Obj(a) \cup DOMAIN Obj(b) |-> IF k \in DOMAIN Obj(b) THEN Obj(b)[k] ELSE Obj(a)[k]]

\* { k1: o.k1, k2: o.k2, ... } for the keys given
Pick(o, keys) == [k \in DOMAIN Obj(o) \cap keys |-> Obj(o)[k]]

\* o.k for an object-valued member
Member(o, k) == IF Has(Obj(o), k) THEN Obj(o)[k] ELSE Undefined

\* { ...o, k: v } for an object-valued v that may be undefined
WithMember(o, k, v) ==
    IF v = Undefined THEN Pick(o, DOMAIN Obj(o) \ {k}) ELSE Spread(o, k :> v)

\* a || b on the string member k of two objects, as the object { k: a.k || b.k }
OrMember(k, a, b) ==
    IF Has(Obj(a), k) /\ Obj(a)[k] # "" THEN Pick(a, {k}) ELSE Pick(b, {k})

\* a string passed where any value is accepted
Str(s) == [str |-> s]
IsStr(v) == DOMAIN v = {"str"}

(***************************** inputs **************************************)
Ids == {"u1", "u2"}

ViewSample == [page |-> "home", name |-> "n", refinements |-> "r"]
CartSample == [cartId |-> "c1", items |-> "i1", deal_id |-> "d", option_id |-> "o", count |-> "1"]
OddSample  == [cartId |-> "c2", text |-> "q", cartEventType |-> "bogus", trackingType |-> "bogus"]

ViewInputs == {ViewSample}
CartInputs == {CartSample, OddSample}
SetCartInputs == {OddSample}
PurchaseInputs == {CartSample}

UserInputs == { [user |-> [email |-> "e2"]], [user |-> [name |-> "n2"]] }

PropertyInputs == { [property |-> [id |-> "p1"]], [property |-> [id |-> "p2"]] }

JetloreSample == [user_id |-> "ju", access_token |-> "tok", feed_id |-> "feed", div |-> "d"]

\* the configuration objects a caller passes to Tracker
ConfigInputs ==
    { [user |-> [email |-> "e1", name |-> "n1"], paramsToBeaconUrl |-> [fn |-> "paramsToBeaconUrl"]],
      [jetlore |-> JetloreSample] }

\* the (type, data) pairs passed to track
TrackInputs ==
    { <<"view", ViewSample>>, <<"view", Undefined>>, <<"addToCart", CartSample>>,
      <<"removeFromCart", CartSample>>, <<"purchase", CartSample>>, <<"setCart", OddSample>>,
      <<"search", OddSample>>, <<"browse_section", ViewSample>>, <<"browse_promo", ViewSample>>,
      <<"track", CartSample>>, <<"other", ViewSample>>,
      <<"setUser", [user |-> [email |-> "e2"]]>>, <<"setUser", Undefined>>,
      <<"setProperty", [property |-> [id |-> "p1"]]>>, <<"setProperty", ViewSample>> }

(************************** collaborators **********************************)
getClientID == "abc"
getMerchantID == <<"xyz", "uvw">>

RECURSIVE join(_, _)
join(seq, sep) ==
    IF Len(seq) = 0 THEN ""
    ELSE IF Len(seq) = 1 THEN seq[1]
    ELSE seq[1] \o sep \o join(Tail(seq), sep)

getCookie(jar, name) == IF Has(jar, name) THEN jar[name] ELSE ""
setCookie(jar, name, value) == (name :> value) @@ jar

JSONstringify(v) == IF v = Undefined THEN Undefined ELSE [json |-> v]
btoa(s) == [base64 |-> s]
encodeURIComponent(s) == [uri |-> s]

(**************************** the module ***********************************)
defaultTrackerConfig == [user |-> EmptyObj]

\* The effects of a call are accumulated in a record w:
\*   cookies, heap : the cookie jar and the heap as the call leaves them
\*   tracker       : the tracker called
\*   config        : the closure variable `config` of that tracker
\*   gen           : number of generateId() invocations
\*   imgs          : the image elements created, with the src assigned to each
\*   jl            : the calls made to the jetlore client
\*   threw         : the call ended in a TypeError
Begin(t) ==
    [tracker |-> t, cookies |-> cookies, heap |-> heap, config |-> config[t],
     gen |-> 0, imgs |-> <<>>, jl |-> <<>>, threw |-> FALSE]

getUserIdCookie(w) ==
    IF getCookie(w.cookies, "paypal-user-id") # "" THEN getCookie(w.cookies, "paypal-user-id") ELSE Null

setRandomUserIdCookie(w, id) ==
    [w EXCEPT !.cookies = setCookie(@, "paypal-user-id", id), !.gen = @ + 1]

getJetlorePayload(type, payload) ==
    IF ~IsStr(type) THEN Undefined
    ELSE CASE type.str \in {"addToCart", "removeFromCart", "purchase"} ->
                Pick(payload, {"deal_id", "option_id", "count"})
           [] type.str = "search" -> Pick(payload, {"text"})
           [] type.str \in {"view", "browse_section"} -> Pick(payload, {"name", "refinements"})
           [] type.str = "browse_promo" -> Pick(payload, {"name", "id"})
           [] type.str \in {"addToWishList", "removeFromWishList",
                            "addToFavorites", "removeFromFavorites"} -> Member(payload, "payload")
           [] type.str = "track" ->
                Pick(payload, {"event", "deal_id", "count", "price", "title", "option_id", "text"})
           [] OTHER -> Undefined

encodeData(data) == encodeURIComponent(btoa(JSONstringify(data)))

\* variants of ensureUserIdCookie: one never generates an identity, one always does
ensureUserIdCookie_never(w, id) == w
ensureUserIdCookie_always(w, id) == setRandomUserIdCookie(w, id)

\* `if (!getUserIdCookie()) { setRandomUserIdCookie(); }` of track
ensureUserIdCookie(w, id) ==
    IF getUserIdCookie(w) = Null THEN setRandomUserIdCookie(w, id) ELSE w

\* the object `data` built by track
trackData(cfg, trackingType, trackingData, w) ==
    WithMember(
        Spread(trackingData,
               [user |-> Spread(Member(cfg, "user"), [id |-> getUserIdCookie(w)]),
                trackingType |-> trackingType,
                clientId |-> getClientID,
                merchantId |-> join(getMerchantID, ",")]),
        "property", Member(cfg, "property"))

beaconSrc(cfg, trackingType, data) ==
    IF Has(cfg, "paramsToBeaconUrl")
    THEN [fn |-> "paramsToBeaconUrl", trackingType |-> trackingType, data |-> data]
    ELSE [url |-> "https://www.paypal.com/targeting/track/" \o trackingType \o "?data=",
          data |-> encodeData(data)]

\* track(config, trackingType, trackingData); id is what generateId() returns if invoked
track(cfg, trackingType, trackingData, w, id) ==
    LET w1 == ensureUserIdCookie(w, id)
        data == trackData(cfg, trackingType, trackingData, w1)
        img == [display |-> "none", src |-> beaconSrc(cfg, trackingType, data),
                trackingType |-> trackingType, data |-> data]
    IN  [w1 EXCEPT !.imgs = Append(@, img)]

\* variant of trackCartEvent: a cartEventType of the data wins over the discriminator
trackCartEvent_dataWins(cfg, cartEventType, trackingData, w, id) ==
    track(cfg, "cartEvent", Spread([cartEventType |-> cartEventType], trackingData), w, id)

trackCartEvent(cfg, cartEventType, trackingData, w, id) ==
    track(cfg, "cartEvent", Spread(trackingData, [cartEventType |-> cartEventType]), w, id)

jetloreTrackTypes ==
    { "view", "addToCart", "removeFromCart", "purchase", "search", "browse_section",
      "browse_promo", "addToWishList", "removeFromWishList", "addToFavorites",
      "removeFromFavorites", "track" }

\* the calls Tracker(config) makes to the jetlore client when it is created
Tracker(cfg) ==
    IF Has(cfg, "jetlore")
    THEN LET jetlore == cfg.jetlore
             base == [cid |-> jetlore.access_token, user_id |-> jetlore.user_id,
                      feed_id |-> jetlore.feed_id]
             div  == IF Has(jetlore, "div") /\ jetlore.div # "" THEN EmptyObj ELSE Pick(jetlore, {"div"})
             lang == IF Has(jetlore, "lang") /\ jetlore.lang # "" THEN EmptyObj ELSE Pick(jetlore, {"lang"})
         IN  <<[fn |-> "tracking", arg |-> Spread(Spread(base, div), lang)]>>
    ELSE <<>>

Cfg(w) == w.heap[w.config]

\* variant of trackers.addToCart: the cart is not stored
addToCart_noSnapshot(data, w, id) == trackCartEvent(Cfg(w), "addToCart", data, w, id)

\* trackers.addToCart
addToCart(data, w, id) ==
    trackCartEvent(Cfg(w), "addToCart", data,
                   [w EXCEPT !.cookies = setCookie(@, "paypal-cr-cart", JSONstringify(data))], id)

\* variant of mergedUser: no fall back to the stored email and name
mergedUser_noFallback(cfg, data) ==
    Spread(Pick(Member(cfg, "user"), DOMAIN Obj(Member(cfg, "user")) \ {"email", "name"}),
           Pick(data.user, {"email", "name"}))

\* the user object built by trackers.setUser
mergedUser(cfg, data) ==
    Spread(Spread(Pick(Member(cfg, "user"), DOMAIN Obj(Member(cfg, "user")) \ {"email", "name"}),
                  OrMember("email", data.user, Member(cfg, "user"))),
           OrMember("name", data.user, Member(cfg, "user")))

\* Addresses only name the objects. Address 1 holds defaultTrackerConfig, Given(t) the
\* object the caller passed when creating tracker t, and Own(t) the object that setUser
\* creates for tracker t. A second setUser of the same tracker puts its new object at
\* Own(t) again: the object it replaces there was referenced by that closure variable
\* alone, so it is unreachable once the variable is assigned.
Given(t) == 2 * t
Own(t) == 2 * t + 1

\* variant of rebindConfig: the object the closure holds is overwritten in place
rebindConfig_inPlace(w, newConfig) == [w EXCEPT !.heap[w.config] = newConfig]

\* the assignment `config = { ...config, user: ... }` of trackers.setUser
rebindConfig(w, newConfig) ==
    [w EXCEPT !.heap = (Own(w.tracker) :> newConfig) @@ @, !.config = Own(w.tracker)]

\* trackers.setUser
setUser(data, w, id) ==
    IF data = Undefined \/ ~Has(data, "user") THEN [w EXCEPT !.threw = TRUE]
    ELSE LET w1 == rebindConfig(w, Spread(Cfg(w), [user |-> mergedUser(Cfg(w), data)]))
         IN  track(Cfg(w1), "setUser", [oldUserId |-> getUserIdCookie(w1)], w1, id)

\* trackers.setProperty
setProperty(data, w) ==
    IF data = Undefined \/ ~Has(data, "property") THEN [w EXCEPT !.threw = TRUE]
    ELSE [w EXCEPT !.heap[w.config] = Spread(@, [property |-> Pick(data.property, {"id"})])]

trackerNames ==
    {"view", "addToCart", "setCart", "removeFromCart", "purchase", "setUser", "setProperty"}

\* trackers[type](data)
trackers(type, data, w, id) ==
    CASE type = "view" -> track(Cfg(w), "view", data, w, id)
      [] type = "addToCart" -> addToCart(data, w, id)
      [] type = "setCart" -> trackCartEvent(Cfg(w), "setCart", data, w, id)
      [] type = "removeFromCart" -> trackCartEvent(Cfg(w), "removeFromCart", data, w, id)
      [] type = "purchase" -> track(Cfg(w), "purchase", data, w, id)
      [] type = "setUser" -> setUser(data, w, id)
      [] type = "setProperty" -> setProperty(data, w)

\* variant of forwardsToJetlore: the credentials are not looked at
forwardsToJetlore_anyConfig(cfg, type, data) == type \in jetloreTrackTypes /\ data # Undefined

\* the condition under which trackEvent forwards to the jetlore client
forwardsToJetlore(cfg, type, data) ==
    LET isJetloreType == IF Has(cfg, "jetlore") THEN type \in jetloreTrackTypes ELSE FALSE
    IN  Has(cfg, "jetlore") /\ isJetloreType /\ data # Undefined

\* trackEvent(type, data)
trackEvent(type, data, w, id) ==
    LET w1 == IF forwardsToJetlore(Cfg(w), type, data)
              THEN [w EXCEPT !.jl = Append(@, [fn |-> type, arg |-> getJetlorePayload(data, Undefined)])]
              ELSE w
    IN  IF type \in trackerNames THEN trackers(type, data, w1, id) ELSE w1

(***************************** actions *************************************)
Init ==
    /\ heap = (1 :> defaultTrackerConfig)
    /\ config = <<>>
    /\ given = <<>>
    /\ cookies = EmptyObj
    /\ lastPropertyId = <<>>

Trackers == 1 .. Len(config)

\* the values generateId() may return to a call made on the cookie jar as it is
GeneratedIds ==
    IF Has(cookies, "paypal-user-id") THEN {CHOOSE id \in Ids : TRUE} ELSE Ids

\* the state a call leaves, w being its result; a call that threw leaves what it did before
Return(t, type, data, w) ==
    /\ Cardinality(DOMAIN w.heap) <= MaxObjs
    /\ heap' = w.heap
    /\ config' = [config EXCEPT ![t] = w.config]
    /\ cookies' = w.cookies
    /\ lastPropertyId' =
          IF type = "setProperty" /\ ~w.threw
          THEN [lastPropertyId EXCEPT ![t] = data.property.id]
          ELSE lastPropertyId
    /\ UNCHANGED given

\* Tracker(config) with a configuration object of the caller, and Tracker()
NewTracker ==
    /\ Len(config) < MaxTrackers
    /\ \E arg \in ConfigInputs \cup {Undefined} :
          LET t == Len(config) + 1
              a == IF arg = Undefined THEN 1 ELSE Given(t)
          IN  /\ arg # Undefined => Cardinality(DOMAIN heap) < MaxObjs
              /\ heap' = IF arg = Undefined THEN heap ELSE (a :> arg) @@ heap
              /\ config' = Append(config, a)
              /\ given' = Append(given, IF arg = Undefined THEN 0 ELSE a)
              /\ lastPropertyId' = Append(lastPropertyId, Null)
              /\ UNCHANGED cookies

View ==
    \E t \in Trackers, data \in ViewInputs, id \in GeneratedIds :
        Return(t, "view", data, trackers("view", data, Begin(t), id))

AddToCart ==
    \E t \in Trackers, data \in CartInputs, id \in GeneratedIds :
        Return(t, "addToCart", data, trackers("addToCart", data, Begin(t), id))

SetCart ==
    \E t \in Trackers, data \in SetCartInputs, id \in GeneratedIds :
        Return(t, "setCart", data, trackers("setCart", data, Begin(t), id))

RemoveFromCart ==
    \E t \in Trackers, data \in PurchaseInputs, id \in GeneratedIds :
        Return(t, "removeFromCart", data, trackers("removeFromCart", data, Begin(t), id))

Purchase ==
    \E t \in Trackers, data \in PurchaseInputs, id \in GeneratedIds :
        Return(t, "purchase", data, trackers("purchase", data, Begin(t), id))

SetUser ==
    \E t \in Trackers, data \in UserInputs, id \in GeneratedIds :
        Return(t, "setUser", data, trackers("setUser", data, Begin(t), id))

SetProperty ==
    \E t \in Trackers, data \in PropertyInputs, id \in GeneratedIds :
        Return(t, "setProperty", data, trackers("setProperty", data, Begin(t), id))

TrackEvent ==
    \E t \in Trackers, in \in TrackInputs, id \in GeneratedIds :
        Return(t, in[1], in[2], trackEvent(in[1], in[2], Begin(t), id))

\* a cookie reaches the end of its time-to-live
Expire ==
    \E name \in DOMAIN cookies :
        /\ cookies' = [k \in DOMAIN cookies \ {name} |-> cookies[k]]
        /\ UNCHANGED <<heap, config, given, lastPropertyId>>

Next ==
    \/ NewTracker
    \/ View
    \/ AddToCart
    \/ SetCart
    \/ RemoveFromCart
    \/ Purchase
    \/ SetUser
    \/ SetProperty
    \/ TrackEvent
    \/ Expire

Spec == Init /\ [][Next]_vars

TypeOK ==
    /\ Cardinality(DOMAIN heap) \in 1 .. MaxObjs
    /\ Len(config) <= MaxTrackers
    /\ \A t \in Trackers : config[t] \in DOMAIN heap /\ given[t] \in DOMAIN heap \cup {0}

(**************************** properties ***********************************)
\* The calls that can be made on a tracker, as <<function, data>>
EventCalls ==
    {<<"view", d>> : d \in ViewInputs} \cup {<<"addToCart", d>> : d \in CartInputs}
      \cup {<<"setCart", d>> : d \in SetCartInputs}
      \cup {<<"removeFromCart", d>> : d \in PurchaseInputs}
      \cup {<<"purchase", d>> : d \in PurchaseInputs}
UserCalls == {<<"setUser", d>> : d \in UserInputs}
PropertyCalls == {<<"setProperty", d>> : d \in PropertyInputs}
DirectCalls == EventCalls \cup UserCalls \cup PropertyCalls

\* the result of calling tracker t's function c[1] with c[2], and of t.track(c[1], c[2])
Direct(t, c, id) == trackers(c[1], c[2], Begin(t), id)
Tracked(t, c, id) == trackEvent(c[1], c[2], Begin(t), id)

\* every result of a call on tracker t satisfies P
AllResults(t, calls, tracked, P(_)) ==
    \A id \in Ids :
        /\ \A c \in calls : P(Direct(t, c, id))
        /\ \A c \in tracked : P(Tracked(t, c, id))

HasIdentity == Has(cookies, "paypal-user-id")
Beacons(w) == {w.imgs[i] : i \in 1 .. Len(w.imgs)}
StoredUser(h, a) == Pick(Member(h[a], "user"), {"email", "name"})
StoredProperty(h, a) == Member(h[a], "property")
\* the configuration object tracker t was created with
Original(t) == IF given[t] = 0 THEN 1 ELSE given[t]

\* C1: a call of view, purchase, addToCart, setCart or removeFromCart made while no
\* identity is stored invokes generateId exactly once, stores the identifier it returned
\* and fires a beacon whose user.id is the stored identifier.
C1_IdentityGeneratedOnce ==
    \A t \in Trackers, c \in EventCalls, id \in Ids :
        ~HasIdentity =>
            LET w == Direct(t, c, id)
            IN  /\ w.gen = 1
                /\ getCookie(w.cookies, "paypal-user-id") = id
                /\ Len(w.imgs) = 1
                /\ w.imgs[1].data.user.id = getCookie(w.cookies, "paypal-user-id")

\* the identity has expired after a cart was stored, and an event call generates a new one
C1_Witness ==
    /\ ~HasIdentity
    /\ Has(cookies, "paypal-cr-cart")
    /\ \E t \in Trackers : Direct(t, <<"view", ViewSample>>, "u2").imgs[1].data.user.id = "u2"

\* C2: while an identity is stored, no call of a tracker (view, addToCart, setCart,
\* removeFromCart, purchase, setUser, setProperty, track) invokes generateId or changes
\* the stored identity, and every beacon the call fires carries the stored identity.
C2_IdentityKept ==
    \A t \in Trackers :
        HasIdentity =>
            LET Kept(w) == /\ w.gen = 0
                           /\ getCookie(w.cookies, "paypal-user-id") = cookies["paypal-user-id"]
                           /\ \A b \in Beacons(w) : b.data.user.id = cookies["paypal-user-id"]
            IN  AllResults(t, DirectCalls, TrackInputs, Kept)

\* the identity u2 is stored and a call that could generate u1 fires a beacon carrying u2
C2_Witness ==
    /\ HasIdentity
    /\ cookies["paypal-user-id"] = "u2"
    /\ \E t \in Trackers : Direct(t, <<"purchase", CartSample>>, "u1").imgs[1].data.user.id = "u2"

\* C3: setUser with a name and no email keeps the stored email and stores the new name,
\* setUser with an email and no name keeps the stored name and stores the new email; the
\* setUser beacon carries the merged fields, and so does every later beacon of the
\* tracker: no other call on it, and no call on another tracker, changes them.
C3_UserMerged ==
    \A t \in Trackers, id \in Ids :
        LET old == StoredUser(heap, config[t])
        IN  /\ \A d \in UserInputs :
                  LET w == Direct(t, <<"setUser", d>>, id)
                      new == StoredUser(w.heap, w.config)
                  IN  /\ (Has(d.user, "name") /\ ~Has(d.user, "email")) =>
                             /\ Pick(new, {"email"}) = Pick(old, {"email"})
                             /\ Pick(new, {"name"}) = Pick(d.user, {"name"})
                      /\ (Has(d.user, "email") /\ ~Has(d.user, "name")) =>
                             /\ Pick(new, {"name"}) = Pick(old, {"name"})
                             /\ Pick(new, {"email"}) = Pick(d.user, {"email"})
                      /\ Len(w.imgs) = 1
                      /\ w.imgs[1].trackingType = "setUser"
                      /\ Pick(w.imgs[1].data.user, {"email", "name"}) = new
            /\ \A c \in EventCalls \cup PropertyCalls :
                  LET w == Direct(t, c, id)
                  IN  /\ StoredUser(w.heap, w.config) = old
                      /\ \A b \in Beacons(w) : Pick(b.data.user, {"email", "name"}) = old
            /\ \A u \in Trackers \ {t}, c \in DirectCalls :
                  StoredUser(Direct(u, c, id).heap, config[t]) = old

\* a tracker created with email e1 and name n1 has had a setUser with the name n2 alone
C3_Witness ==
    \E t \in Trackers :
        /\ config[t] = Own(t)
        /\ StoredUser(heap, Original(t)) = [email |-> "e1", name |-> "n1"]
        /\ StoredUser(heap, config[t]) = [email |-> "e1", name |-> "n2"]

\* C4: setProperty fires no beacon, and once tracker t has set a property id, every beacon
\* a later call on t fires has property.id equal to the id t set most recently.
C4_Original ==
    \A t \in Trackers, id \in Ids :
        /\ \A c \in PropertyCalls : Direct(t, c, id).imgs = <<>>
        /\ lastPropertyId[t] # Null =>
              \A c \in EventCalls \cup UserCalls :
                  \A b \in Beacons(Direct(t, c, id)) :
                      /\ Has(b.data, "property")
                      /\ b.data.property = [id |-> lastPropertyId[t]]

\* C5: a tracker whose configuration has no jetlore credentials makes no call to the
\* jetlore client: none when it is created, and none in any call, whatever the type
\* passed to track.
C5_NoForwardWithoutCredentials ==
    /\ \A cfg \in ConfigInputs \cup {defaultTrackerConfig} :
          ~Has(cfg, "jetlore") => Tracker(cfg) = <<>>
    /\ \A t \in Trackers :
          ~Has(heap[Original(t)], "jetlore") =>
              LET Silent(w) == w.jl = <<>>
              IN  AllResults(t, DirectCalls, TrackInputs, Silent)

\* a tracker without credentials is asked to track an allow-listed type with data,
\* and fires its beacon without calling the jetlore client
C5_Witness ==
    \E t \in Trackers :
        /\ ~Has(heap[Original(t)], "jetlore")
        /\ "view" \in jetloreTrackTypes
        /\ Len(Tracked(t, <<"view", ViewSample>>, "u1").imgs) = 1
        /\ Tracked(t, <<"view", ViewSample>>, "u1").jl = <<>>

\* the fields of the data that the jetlore handler of a type is to receive
JetloreFields(type) ==
    CASE type \in {"view", "browse_section"} -> {"name", "refinements"}
      [] type \in {"addToCart", "removeFromCart", "purchase"} -> {"deal_id", "option_id", "count"}
      [] type = "search" -> {"text"}
      [] type = "browse_promo" -> {"name", "id"}

\* C6: with jetlore credentials configured, track(type, data) with an allow-listed type
\* and data hands the jetlore handler of that type the type's subset of the data's fields.
C6_Original ==
    \A t \in Trackers, c \in TrackInputs, id \in Ids :
        ( /\ Has(heap[config[t]], "jetlore")
          /\ c[1] \in {"view", "browse_section", "addToCart", "removeFromCart", "purchase",
                       "search", "browse_promo"}
          /\ c[2] # Undefined ) =>
            Tracked(t, c, id).jl = <<[fn |-> c[1], arg |-> Pick(c[2], JetloreFields(c[1]))]>>

\* C7: each call of view, addToCart, setCart, removeFromCart, purchase or setUser creates
\* one image element and assigns it one request URL, in every state; the cart functions
\* fire under tracking type cartEvent with cartEventType naming the function.
C7_OneBeaconPerCall ==
    \A t \in Trackers, c \in EventCalls \cup UserCalls, id \in Ids :
        LET w == Direct(t, c, id)
        IN  /\ Len(w.imgs) = 1
            /\ w.imgs[1].src = beaconSrc(w.heap[w.config], w.imgs[1].trackingType, w.imgs[1].data)
            /\ w.imgs[1].data.trackingType = w.imgs[1].trackingType
            /\ IF c[1] \in {"addToCart", "setCart", "removeFromCart"}
               THEN /\ w.imgs[1].trackingType = "cartEvent"
                    /\ w.imgs[1].data.cartEventType = c[1]
               ELSE w.imgs[1].trackingType = c[1]

\* after earlier calls, setCart is called with data that has a cartEventType of its own
C7_Witness ==
    /\ HasIdentity
    /\ \E t \in Trackers :
          /\ OddSample.cartEventType # "setCart"
          /\ Direct(t, <<"setCart", OddSample>>, "u1").imgs[1].data.cartEventType = "setCart"

CartCookie(jar) == Pick(jar, {"paypal-cr-cart"})

\* C8: a call of addToCart, direct or through track, leaves the serialized data of that
\* call under paypal-cr-cart; every other call leaves that cookie as it was.
C8_CartSnapshot ==
    \A t \in Trackers :
        LET Snapshot(c, w) ==
                IF c[1] = "addToCart"
                THEN CartCookie(w.cookies) = ("paypal-cr-cart" :> JSONstringify(c[2]))
                ELSE CartCookie(w.cookies) = CartCookie(cookies)
        IN  \A id \in Ids :
                /\ \A c \in DirectCalls : Snapshot(c, Direct(t, c, id))
                /\ \A c \in TrackInputs : Snapshot(c, Tracked(t, c, id))

\* the cookie holds the data of the latest addToCart
C8_Witness ==
    /\ Trackers # {}
    /\ CartCookie(cookies) = ("paypal-cr-cart" :> [json |-> OddSample])

\* C9 as stated: after setUser the object the caller passed holds the merged email and
\* name, and after setProperty it holds the new property id.
C9_Original ==
    \A t \in Trackers, id \in Ids :
        given[t] # 0 =>
            /\ \A d \in UserInputs :
                  StoredUser(Direct(t, <<"setUser", d>>, id).heap, given[t])
                      = Spread(StoredUser(heap, config[t]), d.user)
            /\ \A d \in PropertyInputs :
                  StoredProperty(Direct(t, <<"setProperty", d>>, id).heap, given[t])
                      = [id |-> d.property.id]

\* C9 as amended: setProperty changes in place the object the tracker holds, and no
\* other; setUser changes no object that exists: it binds the tracker to a new object,
\* which holds the merged email and name and the other fields of the one held before.
\* (Own(t), which a setUser of t may replace, is the object of an earlier setUser of t.)
C9_Amended ==
    \A t \in Trackers, id \in Ids :
        /\ \A d \in UserInputs :
              LET w == Direct(t, <<"setUser", d>>, id)
              IN  /\ \A a \in DOMAIN heap \ {Own(t)} : w.heap[a] = heap[a]
                  /\ w.config \notin {1, given[t]} \cup {config[u] : u \in Trackers \ {t}}
                  /\ StoredUser(w.heap, w.config) = Spread(StoredUser(heap, config[t]), d.user)
                  /\ Pick(w.heap[w.config], DOMAIN w.heap[w.config] \ {"user"})
                        = Pick(heap[config[t]], DOMAIN heap[config[t]] \ {"user"})
        /\ \A d \in PropertyInputs :
              LET w == Direct(t, <<"setProperty", d>>, id)
              IN  /\ w.config = config[t]
                  /\ w.heap[config[t]] = Spread(heap[config[t]], [property |-> [id |-> d.property.id]])
                  /\ \A a \in DOMAIN heap \ {config[t]} : w.heap[a] = heap[a]

\* a tracker created with an object of the caller has had a setUser and then a
\* setProperty: the caller's object holds neither the merged user nor the property
C9_Witness ==
    \E t \in Trackers :
        /\ given[t] # 0
        /\ config[t] = Own(t)
        /\ StoredUser(heap, given[t]) # StoredUser(heap, config[t])
        /\ StoredProperty(heap, given[t]) = Undefined
        /\ StoredProperty(heap, config[t]) # Undefined

\* C10: trackers created with no configuration argument are isolated: setProperty and
\* setUser on one of them change neither the property nor the user fields another of
\* them puts in its payloads, nor those of a tracker created afterwards.
C10_Original ==
    /\ heap[1] = defaultTrackerConfig
    /\ \A t \in Trackers, u \in Trackers, id \in Ids :
          (t # u /\ given[t] = 0 /\ given[u] = 0) =>
              \A c \in UserCalls \cup PropertyCalls :
                  LET w == Direct(t, c, id)
                  IN  /\ StoredProperty(w.heap, config[u]) = StoredProperty(heap, config[u])
                      /\ StoredUser(w.heap, config[u]) = StoredUser(heap, config[u])
====
